---------------------------- MODULE Spec2Model ----------------------------
(***************************************************************************)
(* Model of the AppleTV driver of PiControl Hub                            *)
(* (pi_control_hub_driver_appletv).                                        *)
(*                                                                         *)
(*   Spec        the command execution helper __execute_while_connected    *)
(*               of commands.py, run by concurrent asyncio tasks over the  *)
(*               module-wide device_cache = TTLCache(20, ttl=1200).        *)
(*   SpecDriver  AppleTvDeviceDriver: construction, get_command, execute.  *)
(*   SpecPairing AppleTvDeviceDriverDescriptor: start_pairing and          *)
(*               finalize_pairing over pairing_requests_cache =            *)
(*               TTLCache(maxsize=10, ttl=300), and the storage singleton. *)
(*                                                                         *)
(* Every action is the code that runs between two suspension points        *)
(* (await) of a coroutine, or a whole synchronous handler.  The clock is   *)
(* time.monotonic() in seconds and advances only in Tick.                  *)
(***************************************************************************)
EXTENDS Integers, Sequences, FiniteSets, TLC

(***************************************************************************)
(* Program constants.                                                      *)
(***************************************************************************)
MaxSize == 20
TTL == 1200
\* pairing_requests_cache = TTLCache(maxsize=10, ttl=300)
PairingMaxSize == 10
PairingTTL == 300

TURN_ON == 1
TURN_OFF == 2
UP == 3
RIGHT == 4
DOWN == 5
LEFT == 6
SELECT == 7
PLAY_PAUSE == 8
BACK == 9
VOLUME_UP == 10
VOLUME_DOWN == 11
HOME == 12

(***************************************************************************)
(* Bounds of the model.                                                    *)
(***************************************************************************)
\* seconds by which one Tick advances the clock
TickSeconds == 600
\* the clock stops advancing after this many ticks
MaxTicks == 2
\* seconds by which one PairingTick advances the clock
PairingTickSeconds == 150
\* pairing requests started in one run
MaxRequests == 2
\* finalize_pairing calls that reach one pairing handler
MaxFinalize == 2

Tasks == {"task1", "task2"}

\* device ids for which commands are executed
DeviceIds == {1, 2}
\* network addresses under which a scan may report a device
Addresses == {1, 2}

\* a pyatv device configuration as returned by pyatv.scan
RawDevice(d, a) == [identifier |-> d, address |-> a]
\* Python's None for a variable that holds a device configuration
NoDevice == [identifier |-> 0, address |-> 0]

\* the lists pyatv.scan(identifier=d) may return
ScanResults(d) ==
    {<<>>}
    \cup {<<RawDevice(d, a)>> : a \in Addresses}
    \cup {<<RawDevice(d, p[1]), RawDevice(d, p[2])>> :
            p \in {q \in Addresses \X Addresses : q[1] # q[2]}}

VARIABLES
    now,            \* time.monotonic(), in seconds
    device_cache,   \* commands.device_cache: entries in least-recently-used order
    task,           \* the frame of each running __execute_while_connected
    lastWrite,      \* history: per executed id, its latest cache write (value, time)
    evicted,        \* history: ids removed by the capacity limit since their last write
    recency,        \* history: ids in order of their last use (hit or write)
    storage,        \* PyAtvStorage.__global_storage
    drivers,        \* the AppleTvDeviceDriver instance created per device id
    pairing_requests_cache, \* AppleTvDeviceDriverDescriptor.pairing_requests_cache
    sessions,       \* the pairing handlers pyatv.pair returned, by request id
    call,           \* the latest call of the synchronous driver API
    finalized       \* history: request ids finalize_pairing found in the cache

execVars == <<device_cache, task, lastWrite, evicted, recency>>
hubVars == <<storage, drivers, pairing_requests_cache, sessions, call, finalized>>
vars == <<now, execVars, hubVars>>

(***************************************************************************)
(* cachetools.TTLCache.  A cache is the sequence of its entries            *)
(* [key, value, expires] in the order of the cache's OrderedDict of links: *)
(* the head is the least recently used key.  Every entry gets the same     *)
(* ttl, so the expiry order is the insertion order and expire() removes    *)
(* exactly the entries with expires <= time.                               *)
(***************************************************************************)
Range(seq) == {seq[i] : i \in 1..Len(seq)}

Keys(cache) == {cache[i].key : i \in 1..Len(cache)}

Index(cache, key) == CHOOSE i \in 1..Len(cache) : cache[i].key = key

Remove(cache, key) == SelectSeq(cache, LAMBDA e : e.key # key)

\* Faulty variant of CacheContains: plain dict membership, the expiry not
\* looked at.  C4 fails under it.
CacheContainsExpired(cache, key, time) == key \in Keys(cache)

\* Faulty variant of CacheContains: an entry still counts as present at the
\* instant of its expiry.  C12 fails under it.
CacheContainsLate(cache, key, time) ==
    \E i \in 1..Len(cache) : cache[i].key = key /\ time <= cache[i].expires

\* TTLCache.__contains__: key in cache
CacheContains(cache, key, time) ==
    \E i \in 1..Len(cache) : cache[i].key = key /\ time < cache[i].expires

\* Faulty variant of CacheGetItem: the value of the oldest entry, whatever
\* the key.  C15 fails under it.
CacheGetItemFirst(cache, key) == cache[1].value

\* TTLCache.__getitem__ of a live key: the value
CacheGetItem(cache, key) == cache[Index(cache, key)].value

\* Faulty variant of CacheTouch: no move to the end, which turns the
\* eviction order into insertion order.  C10 fails under it.
CacheTouchInPlace(cache, key) == cache

\* Faulty variant of CacheTouch: a read renews the entry's time to live.
\* C13 fails under it.
CacheTouchRenew(cache, key) ==
    Append(Remove(cache, key),
           [cache[Index(cache, key)] EXCEPT !.expires = @ + TTL])

\* TTLCache.__getitem__ of a live key: the link moves to the end
CacheTouch(cache, key) ==
    Append(Remove(cache, key), cache[Index(cache, key)])

\* TTLCache.expire(time)
CacheExpire(cache, time) == SelectSeq(cache, LAMBDA e : time < e.expires)

\* TTLCache.popitem on an expired-free cache: drops the least recently used
CachePopItem(cache) == Tail(cache)

\* Cache.__setitem__'s room making, every value of size 1
RECURSIVE CacheMakeRoom(_, _)
CacheMakeRoom(cache, maxsize) ==
    IF Len(cache) + 1 > maxsize
    THEN CacheMakeRoom(CachePopItem(cache), maxsize)
    ELSE cache

\* Faulty variant of CacheSetItem: the ttl left out of the expiry.  C3 fails
\* under it.
CacheSetItemNoTtl(cache, key, value, time, maxsize, ttl) ==
    LET live == CacheExpire(cache, time)
        room == IF key \in Keys(live) THEN live ELSE CacheMakeRoom(live, maxsize)
    IN  Append(Remove(room, key),
               [key |-> key, value |-> value, expires |-> time])

\* Faulty variant of CacheSetItem: the new entry is added without the
\* key's old entry being replaced.  C16 fails under it.
CacheSetItemDup(cache, key, value, time, maxsize, ttl) ==
    LET live == CacheExpire(cache, time)
        room == IF key \in Keys(live) THEN live ELSE CacheMakeRoom(live, maxsize)
    IN  Append(room, [key |-> key, value |-> value, expires |-> time + ttl])

\* TTLCache.__setitem__: cache[key] = value at `time`
CacheSetItem(cache, key, value, time, maxsize, ttl) ==
    LET live == CacheExpire(cache, time)
        room == IF key \in Keys(live) THEN live ELSE CacheMakeRoom(live, maxsize)
    IN  Append(Remove(room, key),
               [key |-> key, value |-> value, expires |-> time + ttl])

(***************************************************************************)
(* The command catalog of commands.py.                                     *)
(***************************************************************************)
\* the rows of create_commands: id, title, icon file, callback
Catalog ==
    << <<TURN_ON, "On", "turn-on.png", "turn_on">>,
       <<TURN_OFF, "Off", "turn-off.png", "turn_off">>,
       <<UP, "Up", "up.png", "up">>,
       <<RIGHT, "Right", "right.png", "right">>,
       <<DOWN, "Down", "down.png", "down">>,
       <<LEFT, "Left", "left.png", "left">>,
       <<SELECT, "Select", "ok.png", "select">>,
       <<PLAY_PAUSE, "Play/Pause", "play-pause.png", "play_pause">>,
       <<BACK, "Back", "back.png", "back">>,
       <<VOLUME_UP, "Volume +", "volume-up.png", "volume_up">>,
       <<VOLUME_DOWN, "Volume -", "volume-down.png", "volume_down">>,
       <<HOME, "Home", "home.png", "home">> >>

\* create_commands(device_id, storage)
create_commands(device_id) ==
    [i \in 1..Len(Catalog) |->
        [id |-> Catalog[i][1], title |-> Catalog[i][2], icon |-> Catalog[i][3],
         device_id |-> device_id, callback |-> Catalog[i][4]]]

NoCommand == [id |-> 0, title |-> "", icon |-> "", device_id |-> 0, callback |-> ""]

\* the twelve callbacks: the method each one's operation awaits on atv
Method(callback) ==
    CASE callback = "turn_on"     -> "power.turn_on"
      [] callback = "turn_off"    -> "power.turn_off"
      [] callback = "up"          -> "remote_control.up"
      [] callback = "right"       -> "remote_control.right"
      [] callback = "down"        -> "remote_control.down"
      [] callback = "left"        -> "remote_control.left"
      [] callback = "select"      -> "remote_control.select"
      [] callback = "play_pause"  -> "remote_control.play_pause"
      [] callback = "back"        -> "remote_control.menu"
      [] callback = "volume_up"   -> "audio.volume_up"
      [] callback = "volume_down" -> "audio.volume_down"
      [] callback = "home"        -> "remote_control.home"

\* the ids of the commands awaited in the model
ExecutedCommands == {BACK}

\* the command of device d's catalog with id c
CommandOf(d, c) == CHOOSE x \in Range(create_commands(d)) : x.id = c

(***************************************************************************)
(* __execute_while_connected.  task[t] is the coroutine's frame:           *)
(*   pc      where it is suspended ("idle": not called yet, "done":        *)
(*           returned or raised)                                           *)
(*   trace   what the call did so far                                      *)
(*   result  "ok" for a normal return, else the exception that left it     *)
(* and the locals a later line still reads: device_id up to the cache      *)
(* write of line 41, devices and apple_tv_device up to the connect of      *)
(* line 42.                                                                *)
(***************************************************************************)
IdleFrame ==
    [pc |-> "idle", device_id |-> 0, operation |-> "", devices |-> <<>>,
     apple_tv_device |-> NoDevice, trace |-> <<>>, result |-> "none",
     exc_device_id |-> 0]

\* the frame after the call ended: its locals are gone, what is left is the
\* result and what the call did
Ended(f, result) ==
    [IdleFrame EXCEPT !.pc = "done", !.result = result, !.trace = f.trace]

\* Faulty variant of DeviceNotFound: raised without the device id.  C5 fails
\* under it.
DeviceNotFoundNoId(f) == Ended(f, "DeviceNotFoundException")

\* raise DeviceNotFoundException(device_id=device_id)
DeviceNotFound(f) ==
    [Ended(f, "DeviceNotFoundException") EXCEPT !.exc_device_id = f.device_id]

Use(d) == Append(SelectSeq(recency, LAMBDA k : k # d), d)

\* ids the capacity limit removes when cache[d] is set now
Displaced(d) ==
    {k \in Keys(CacheExpire(device_cache, now)) \ {d} :
        k \notin Keys(CacheSetItem(device_cache, d, NoDevice, now, MaxSize, TTL))}

\* AppleTvDeviceCommand.execute awaited for command c of device d: the
\* callback calls the helper, which runs lines 31-37 or 31-35, 42 to its
\* first await
Execute(t, d, c) ==
    /\ task[t].pc \in {"idle", "done"}
    /\ IF CacheContains(device_cache, d, now)
       THEN /\ task' = [task EXCEPT ![t] =
                   [IdleFrame EXCEPT !.pc = "connect", !.device_id = d,
                        !.operation = Method(CommandOf(d, c).callback),
                        !.apple_tv_device = CacheGetItem(device_cache, d),
                        !.trace = <<"hit">>]]
            /\ device_cache' = CacheTouch(device_cache, d)
            /\ recency' = Use(d)
       ELSE /\ task' = [task EXCEPT ![t] =
                   [IdleFrame EXCEPT !.pc = "scan", !.device_id = d,
                        !.operation = Method(CommandOf(d, c).callback), !.trace = <<"scan">>]]
            /\ UNCHANGED <<device_cache, recency>>
    /\ UNCHANGED <<now, lastWrite, evicted, hubVars>>

\* lines 37-42: pyatv.scan returned `devices`
ScanReturn(t, devices) ==
    LET f == task[t]
        d == f.device_id
    IN  /\ f.pc = "scan"
        /\ IF devices = <<>>
           THEN /\ task' = [task EXCEPT ![t] = DeviceNotFound(f)]
                /\ UNCHANGED <<device_cache, lastWrite, evicted, recency>>
           ELSE /\ task' = [task EXCEPT ![t] =
                       [f EXCEPT !.pc = "connect", !.devices = devices,
                            !.apple_tv_device = devices[1],
                            !.trace = Append(f.trace, "write")]]
                /\ device_cache' =
                       CacheSetItem(device_cache, d, devices[1], now, MaxSize, TTL)
                /\ lastWrite' = [lastWrite EXCEPT ![d] =
                                    [value |-> devices[1], at |-> now]]
                /\ evicted' = (evicted \cup Displaced(d)) \ {d}
                /\ recency' = Use(d)
        /\ UNCHANGED <<now, hubVars>>

\* line 37: pyatv.scan raised
ScanRaise(t) ==
    /\ task[t].pc = "scan"
    /\ task' = [task EXCEPT ![t] = Ended(task[t], "ScanError")]
    /\ UNCHANGED <<now, device_cache, lastWrite, evicted, recency, hubVars>>

\* lines 42-43: pyatv.connect returned atv; operation(atv) runs to its await
ConnectReturn(t) ==
    LET f == task[t]
    IN  /\ f.pc = "connect"
        /\ task' = [task EXCEPT ![t] =
               [IdleFrame EXCEPT !.pc = "operation", !.operation = f.operation,
                    !.trace = f.trace \o <<"connect", f.operation>>]]
        /\ UNCHANGED <<now, device_cache, lastWrite, evicted, recency, hubVars>>

\* Faulty variant of ConnectRaise: a close is attempted on the connection
\* that was never opened.  C11 fails under it.
ConnectRaiseClosing(t) ==
    /\ task[t].pc = "connect"
    /\ task' = [task EXCEPT ![t] =
           Ended([task[t] EXCEPT !.trace = Append(@, "close")], "ConnectError")]
    /\ UNCHANGED <<now, device_cache, lastWrite, evicted, recency, hubVars>>

\* Faulty variant of ConnectRaise: the entry of the device that could not
\* be connected is dropped from the cache.  C20 fails under it.
ConnectRaiseInvalidate(t) ==
    /\ task[t].pc = "connect"
    /\ task' = [task EXCEPT ![t] = Ended(task[t], "ConnectError")]
    /\ device_cache' = Remove(device_cache, task[t].device_id)
    /\ UNCHANGED <<now, lastWrite, evicted, recency, hubVars>>

\* line 42: pyatv.connect raised
ConnectRaise(t) ==
    /\ task[t].pc = "connect"
    /\ task' = [task EXCEPT ![t] = Ended(task[t], "ConnectError")]
    /\ UNCHANGED <<now, device_cache, lastWrite, evicted, recency, hubVars>>

\* lines 43-44: the operation returned; atv.close() is called and gathered
OperationReturn(t) ==
    LET f == task[t]
    IN  /\ f.pc = "operation"
        /\ task' = [task EXCEPT ![t] =
               [f EXCEPT !.pc = "close", !.trace = Append(f.trace, "close")]]
        /\ UNCHANGED <<now, device_cache, lastWrite, evicted, recency, hubVars>>

\* line 43: the operation raised; the exception leaves the helper
OperationRaise(t) ==
    /\ task[t].pc = "operation"
    /\ task' = [task EXCEPT ![t] = Ended(task[t], "OperationError")]
    /\ UNCHANGED <<now, device_cache, lastWrite, evicted, recency, hubVars>>

\* line 44: the gathered close tasks finished; the helper returns
CloseReturn(t) ==
    /\ task[t].pc = "close"
    /\ task' = [task EXCEPT ![t] = Ended(task[t], "ok")]
    /\ UNCHANGED <<now, device_cache, lastWrite, evicted, recency, hubVars>>

\* line 44: a close task raised
CloseRaise(t) ==
    /\ task[t].pc = "close"
    /\ task' = [task EXCEPT ![t] = Ended(task[t], "CloseError")]
    /\ UNCHANGED <<now, device_cache, lastWrite, evicted, recency, hubVars>>

\* the awaiting task is cancelled: CancelledError is raised at the await
Cancel(t) ==
    /\ task[t].pc \in {"scan", "connect", "operation", "close"}
    /\ task' = [task EXCEPT ![t] = Ended(task[t], "CancelledError")]
    /\ UNCHANGED <<now, device_cache, lastWrite, evicted, recency, hubVars>>

\* time passes
Tick ==
    /\ now + TickSeconds <= MaxTicks * TickSeconds
    /\ now' = now + TickSeconds
    /\ UNCHANGED <<execVars, hubVars>>

(***************************************************************************)
(* Initial states.  The device cache is empty after import, or it is full  *)
(* from earlier executions: id 1 and then ids 3, 4, ... of other devices,  *)
(* which no call names again, were resolved, in this order, at time 0.     *)
(* The descriptor has been constructed (get_driver_descriptor), so the     *)
(* pairing cache exists and is empty.                                      *)
(***************************************************************************)
WarmIds == [i \in 1..MaxSize |-> IF i = 1 THEN 1 ELSE i + 1]

WarmCache ==
    [i \in 1..MaxSize |->
        [key |-> WarmIds[i], value |-> RawDevice(WarmIds[i], 1), expires |-> TTL]]

NoWrite == [value |-> NoDevice, at |-> -1]

InitCold ==
    /\ device_cache = <<>>
    /\ lastWrite = [d \in DeviceIds |-> NoWrite]
    /\ recency = <<>>

InitWarm ==
    /\ device_cache = WarmCache
    /\ lastWrite = [d \in DeviceIds |->
                       IF d \in Keys(WarmCache)
                       THEN [value |-> RawDevice(d, 1), at |-> 0]
                       ELSE NoWrite]
    /\ recency = WarmIds

(***************************************************************************)
(* The synchronous driver API of device_driver.py.  Each action is one     *)
(* whole call: synchronized(coro) runs the coroutine to its end and        *)
(* returns its result or raises its exception before the next line runs.   *)
(***************************************************************************)
NoStorage == [created |-> FALSE, loaded |-> FALSE]

\* PyAtvStorage.get_storage(): the singleton afterwards; load_ok is whether
\* FileStorage.load() succeeds when this call is the one that creates it
GetStorage(st, load_ok) ==
    IF st.created THEN st ELSE [created |-> TRUE, loaded |-> load_ok]

\* PyAtvStorage.get_storage() raises: the load of the new storage failed
GetStorageRaises(st, load_ok) == ~st.created /\ ~load_ok

NoDriver == [name |-> "", device_id |-> 0, commands |-> <<>>]

\* AppleTvDeviceDriver.__init__(device_info)
AppleTvDeviceDriver(name, device_id) ==
    [name |-> name, device_id |-> device_id, commands |-> create_commands(device_id)]

\* Faulty variant of get_command: `len(result) > 1`.  C7 fails under it.
get_command_off_by_one(self, cmd_id) ==
    LET result == SelectSeq(self.commands, LAMBDA c : c.id = cmd_id)
    IN  IF Len(result) > 1
        THEN [command |-> result[1], exc |-> "", exc_name |-> "", exc_cmd_id |-> 0]
        ELSE [command |-> NoCommand, exc |-> "CommandNotFoundException",
              exc_name |-> self.name, exc_cmd_id |-> cmd_id]

\* AppleTvDeviceDriver.get_command(cmd_id): the command returned, or the
\* CommandNotFoundException raised with its two arguments
get_command(self, cmd_id) ==
    LET result == SelectSeq(self.commands, LAMBDA c : c.id = cmd_id)
    IN  IF Len(result) > 0
        THEN [command |-> result[1], exc |-> "", exc_name |-> "", exc_cmd_id |-> 0]
        ELSE [command |-> NoCommand, exc |-> "CommandNotFoundException",
              exc_name |-> self.name, exc_cmd_id |-> cmd_id]

\* the record of a call of the API: its arguments, what it did (steps), and
\* what it returned or raised
NoCall ==
    [op |-> "", device_id |-> 0, cmd_id |-> 0, command |-> NoCommand,
     exc |-> "", exc_name |-> "", exc_cmd_id |-> 0, exc_device_id |-> 0,
     coroutine |-> "", invoked |-> <<>>,
     request |-> 0, provides_pin |-> FALSE, paired |-> FALSE,
     credentials |-> "", steps |-> <<>>]

Names == {"Living Room", "Bedroom"}

\* the lists pyatv.scan(identifier=d) may return to the descriptor
NamedScanResults(d) ==
    {<<>>} \cup {<<[identifier |-> d, name |-> n]>> : n \in Names}

\* AppleTvDeviceDriverDescriptor.create_device_instance(device_id):
\* get_device scans, then the driver is built and fetches the storage
CreateDeviceInstance(d, scan_ok, devices, load_ok) ==
    /\ IF ~scan_ok
       THEN /\ call' = [NoCall EXCEPT !.op = "create_device_instance",
                            !.device_id = d, !.exc = "ScanError"]
            /\ UNCHANGED <<drivers, storage>>
       ELSE IF devices = <<>>
       THEN /\ call' = [NoCall EXCEPT !.op = "create_device_instance",
                            !.device_id = d, !.exc = "DeviceNotFoundException",
                            !.exc_device_id = d]
            /\ UNCHANGED <<drivers, storage>>
       ELSE /\ storage' = GetStorage(storage, load_ok)
            /\ IF GetStorageRaises(storage, load_ok)
               THEN /\ call' = [NoCall EXCEPT !.op = "create_device_instance",
                                    !.device_id = d, !.exc = "StorageError"]
                    /\ UNCHANGED drivers
               ELSE /\ call' = [NoCall EXCEPT !.op = "create_device_instance",
                                    !.device_id = d]
                    /\ drivers' = [drivers EXCEPT ![d] =
                           AppleTvDeviceDriver(devices[1].name, devices[1].identifier)]
    /\ UNCHANGED <<now, pairing_requests_cache, sessions, finalized, execVars>>

\* AppleTvDeviceDriver.get_command(cmd_id)
GetCommand(d, cmd_id) ==
    LET got == get_command(drivers[d], cmd_id)
    IN  /\ drivers[d] # NoDriver
        /\ call' = [NoCall EXCEPT !.op = "get_command", !.device_id = d,
                        !.cmd_id = cmd_id, !.command = got.command,
                        !.exc = got.exc, !.exc_name = got.exc_name,
                        !.exc_cmd_id = got.exc_cmd_id]
        /\ UNCHANGED <<now, drivers, storage, pairing_requests_cache, sessions,
                       finalized, execVars>>

\* what command.execute() does when nothing awaits what it returns: the
\* coroutine object is created and none of its body runs
CallWithoutAwait == [coroutine |-> "CORO_CREATED", invoked |-> <<>>]

\* AppleTvDeviceDriver.execute(command), command one of get_commands()
DriverExecute(d, i) ==
    /\ drivers[d] # NoDriver
    /\ i \in 1..Len(drivers[d].commands)
    /\ LET command == drivers[d].commands[i]
           ran == CallWithoutAwait
       IN  call' = [NoCall EXCEPT !.op = "execute", !.device_id = d,
                        !.cmd_id = command.id, !.command = command,
                        !.coroutine = ran.coroutine, !.invoked = ran.invoked]
    /\ UNCHANGED <<now, drivers, storage, pairing_requests_cache, sessions,
                   finalized, execVars>>

(***************************************************************************)
(* Pairing.  sessions[r] is the pairing handler stored under request id r: *)
(* the uuid4 of a request is named by the index of its handler, so it is   *)
(* fresh.  An outcome names the first external call that raises, if any.   *)
(***************************************************************************)
NewSession ==
    [begun |-> FALSE, pin |-> "", finished |-> FALSE, closes |-> 0]

\* PairingHandler.device_provides_pin, a property of the device paired with
DeviceProvidesPin(d) == d = 1

StartOutcomes ==
    {"scan_raises", "no_device", "load_raises", "pair_raises", "begin_raises",
     "save_raises", "ok"}

\* Faulty variant of StartSteps: no `if not devices` return.  C6 fails under
\* it.
StartStepsNoCheck(outcome) ==
    CASE outcome = "scan_raises"  -> <<"scan">>
      [] outcome = "load_raises"  -> <<"scan", "get_storage">>
      [] outcome = "pair_raises"  -> <<"scan", "get_storage", "pair">>
      [] outcome = "begin_raises" -> <<"scan", "get_storage", "pair", "begin">>
      [] outcome = "save_raises"  -> <<"scan", "get_storage", "pair", "begin", "save">>
      [] outcome \in {"no_device", "ok"} ->
            <<"scan", "get_storage", "pair", "begin", "save", "store">>

\* the external calls start_pairing makes up to its end, by outcome
StartSteps(outcome) ==
    CASE outcome \in {"scan_raises", "no_device"} -> <<"scan">>
      [] outcome = "load_raises"  -> <<"scan", "get_storage">>
      [] outcome = "pair_raises"  -> <<"scan", "get_storage", "pair">>
      [] outcome = "begin_raises" -> <<"scan", "get_storage", "pair", "begin">>
      [] outcome = "save_raises"  -> <<"scan", "get_storage", "pair", "begin", "save">>
      [] outcome = "ok" -> <<"scan", "get_storage", "pair", "begin", "save", "store">>

\* start_pairing's result when the scan finds no device: (None, False)
NotStarted == [request |-> 0, provides_pin |-> FALSE]

\* AppleTvDeviceDriverDescriptor.start_pairing(device_info, remote_name)
StartPairing(d, outcome) ==
    LET steps == StartSteps(outcome)
        did(x) == \E i \in 1..Len(steps) : steps[i] = x
        r == Len(sessions) + 1
        base == [NoCall EXCEPT !.op = "start_pairing", !.steps = steps]
    IN  /\ (outcome = "load_raises") => GetStorageRaises(storage, FALSE)
        /\ did("pair") /\ outcome # "pair_raises" => Len(sessions) < MaxRequests
        /\ storage' = IF did("get_storage")
                      THEN GetStorage(storage, outcome # "load_raises")
                      ELSE storage
        /\ sessions' =
               IF did("pair") /\ outcome # "pair_raises"
               THEN Append(sessions,
                       [NewSession EXCEPT
                           !.begun = did("begin") /\ outcome # "begin_raises"])
               ELSE sessions
        /\ pairing_requests_cache' =
               IF did("store")
               THEN CacheSetItem(pairing_requests_cache, r, r, now,
                                 PairingMaxSize, PairingTTL)
               ELSE pairing_requests_cache
        /\ call' =
               CASE outcome = "no_device" ->
                       [base EXCEPT !.request = NotStarted.request,
                                    !.provides_pin = NotStarted.provides_pin]
                 [] outcome = "ok" ->
                       [base EXCEPT !.request = r,
                                    !.provides_pin = DeviceProvidesPin(d)]
                 [] OTHER -> [base EXCEPT !.exc = outcome]
        /\ UNCHANGED <<now, drivers, finalized, execVars>>

FinalizeOutcomes == {"pin_raises", "finish_raises", "close_raises", "save_raises", "ok"}

\* the external calls finalize_pairing makes on a request it found, by outcome
FinalizeSteps(outcome) ==
    CASE outcome = "pin_raises"    -> <<"get_storage", "pin">>
      [] outcome = "finish_raises" -> <<"get_storage", "pin", "finish">>
      [] outcome = "close_raises"  -> <<"get_storage", "pin", "finish", "close">>
      [] outcome = "save_raises"   -> <<"get_storage", "pin", "finish", "close", "save">>
      [] outcome = "ok"            -> <<"get_storage", "pin", "finish", "close", "save">>

\* what finalize_pairing does to the cache entry of the request it served:
\* it reads it (the entry becomes the most recently used) and leaves it
ServedRequest(cache, request) == CacheTouch(cache, request)

\* AppleTvDeviceDriverDescriptor.finalize_pairing(pairing_request,
\* credentials, device_provides_pin); has_paired is the handler's has_paired
\* after the finish() of this call
FinalizePairing(request, credentials, outcome, has_paired) ==
    LET steps == FinalizeSteps(outcome)
        did(x) == \E i \in 1..Len(steps) : steps[i] = x
        base == [NoCall EXCEPT !.op = "finalize_pairing", !.request = request,
                               !.credentials = credentials]
    IN  IF ~CacheContains(pairing_requests_cache, request, now)
        THEN /\ call' = [base EXCEPT !.exc = "DeviceDriverException"]
             /\ UNCHANGED <<now, drivers, storage, pairing_requests_cache,
                            sessions, finalized, execVars>>
        ELSE LET h == CacheGetItem(pairing_requests_cache, request)
                 old == sessions[h]
                 new == [old EXCEPT
                           !.pin = IF outcome # "pin_raises" THEN credentials ELSE @,
                           !.finished = @ \/ (did("finish") /\ outcome # "finish_raises"),
                           !.closes = IF did("close") THEN @ + 1 ELSE @]
             IN  /\ old.closes < MaxFinalize
                 /\ pairing_requests_cache' =
                        ServedRequest(pairing_requests_cache, request)
                 /\ storage' = GetStorage(storage, TRUE)
                 /\ sessions' = [sessions EXCEPT ![h] = new]
                 /\ finalized' = finalized \cup {request}
                 /\ call' = IF outcome = "ok"
                            THEN [base EXCEPT !.steps = steps,
                                              !.paired = has_paired]
                            ELSE [base EXCEPT !.steps = steps, !.exc = outcome]
                 /\ UNCHANGED <<now, drivers, execVars>>

\* time passes
PairingTick ==
    /\ now + PairingTickSeconds <= MaxTicks * PairingTickSeconds
    /\ now' = now + PairingTickSeconds
    /\ UNCHANGED <<hubVars, execVars>>


Init ==
    /\ now = 0
    /\ task = [t \in Tasks |-> IdleFrame]
    /\ evicted = {}
    /\ (InitCold \/ InitWarm)
    /\ storage = NoStorage
    /\ drivers = [d \in DeviceIds |-> NoDriver]
    /\ pairing_requests_cache = <<>>
    /\ sessions = <<>>
    /\ call = NoCall
    /\ finalized = {}

\* the driver API right after import: nothing was executed yet
InitHub == Init /\ InitCold

Next ==
    \/ \E t \in Tasks, d \in DeviceIds, c \in ExecutedCommands : Execute(t, d, c)
    \/ \E t \in Tasks : \E devices \in ScanResults(task[t].device_id) :
            ScanReturn(t, devices)
    \/ \E t \in Tasks : ScanRaise(t)
    \/ \E t \in Tasks : ConnectReturn(t)
    \/ \E t \in Tasks : ConnectRaise(t)
    \/ \E t \in Tasks : OperationReturn(t)
    \/ \E t \in Tasks : OperationRaise(t)
    \/ \E t \in Tasks : CloseReturn(t)
    \/ \E t \in Tasks : CloseRaise(t)
    \/ \E t \in Tasks : Cancel(t)
    \/ Tick

Spec == Init /\ [][Next]_vars

\* ids asked of get_command: the catalog's and some outside it
CommandIdInputs == (0 - 1)..(HOME + 2)

NextDriver ==
    \/ \E d \in DeviceIds, scan_ok \in BOOLEAN, load_ok \in BOOLEAN :
         \E devices \in NamedScanResults(d) :
            CreateDeviceInstance(d, scan_ok, devices, load_ok)
    \/ \E d \in DeviceIds, cmd_id \in CommandIdInputs : GetCommand(d, cmd_id)
    \/ \E d \in DeviceIds, i \in 1..Len(Catalog) : DriverExecute(d, i)

SpecDriver == InitHub /\ [][NextDriver]_vars

Credentials == {"1234"}

NextPairing ==
    \/ \E d \in DeviceIds, outcome \in StartOutcomes : StartPairing(d, outcome)
    \/ \E request \in 1..(MaxRequests + 1), credentials \in Credentials,
          outcome \in FinalizeOutcomes, has_paired \in BOOLEAN :
            FinalizePairing(request, credentials, outcome, has_paired)
    \/ PairingTick

SpecPairing == InitHub /\ [][NextPairing]_vars

(***************************************************************************)
(* Claims about command execution (checked under Spec).                    *)
(***************************************************************************)
\* the call opened a connection: pyatv.connect returned
Opened(f) == "connect" \in Range(f.trace)

\* how often the call called atv.close()
CloseCalls(f) == Cardinality({i \in 1..Len(f.trace) : f.trace[i] = "close"})

\* task t starts a call for device id d in this step
Resolves(t, d) ==
    /\ task[t].pc \in {"idle", "done"}
    /\ task'[t].pc \in {"scan", "connect"}
    /\ task'[t].device_id = d

\* task t's scan returns a device in this step and the cache is written
Writes(t) == task[t].pc = "scan" /\ task'[t].pc = "connect"

\* the cache's entry for a key it holds
Entry(cache, key) == cache[Index(cache, key)]

\* C1: every ended call that opened a connection called close exactly once
\* (normal return, operation raised, or cancelled while suspended).
C1_ClosedOnEveryExit ==
    \A t \in Tasks :
        (task[t].pc = "done" /\ Opened(task[t])) => CloseCalls(task[t]) = 1

\* C3 as stated: a resolution of d less than TTL after the latest cache write
\* for d issues no scan and connects with the handle written then.
C3_NoScanWithinTTL ==
    [][\A t \in Tasks, d \in DeviceIds :
        (Resolves(t, d) /\ lastWrite[d].at >= 0 /\ now < lastWrite[d].at + TTL)
        => /\ task'[t].pc = "connect"
           /\ task'[t].trace = <<"hit">>
           /\ task'[t].apple_tv_device = lastWrite[d].value]_vars

\* C3 amended: the same, for an id the capacity limit has not removed since
\* that write.
C3_NoScanWithinTTLUnlessEvicted ==
    [][\A t \in Tasks, d \in DeviceIds :
        (/\ Resolves(t, d)
         /\ lastWrite[d].at >= 0
         /\ now < lastWrite[d].at + TTL
         /\ d \notin evicted)
        => /\ task'[t].pc = "connect"
           /\ task'[t].trace = <<"hit">>
           /\ task'[t].apple_tv_device = lastWrite[d].value
           /\ Keys(device_cache') = Keys(device_cache)]_vars

\* a call served from the cache some time after a scan of this run wrote it
C3_Witness ==
    \E t \in Tasks, u \in Tasks :
        /\ task[u].trace = <<"scan", "write", "connect", Method("back"), "close">>
        /\ task[t].pc = "connect"
        /\ task[t].trace = <<"hit">>
        /\ lastWrite[task[t].device_id].at >= 0
        /\ lastWrite[task[t].device_id].at < now
        /\ now < lastWrite[task[t].device_id].at + TTL
        /\ task[t].apple_tv_device = lastWrite[task[t].device_id].value

\* C4: a resolution of an id whose entry has expired scans and does not use
\* the entry; a scan's first device replaces the entry, expires TTL after the
\* write and is the device connected to.
C4_ExpiredEntryRediscovered ==
    [][\A t \in Tasks :
        /\ \A d \in DeviceIds :
             (/\ Resolves(t, d)
              /\ d \in Keys(device_cache)
              /\ now >= Entry(device_cache, d).expires)
             => /\ task'[t].pc = "scan"
                /\ task'[t].apple_tv_device = NoDevice
                /\ device_cache' = device_cache
        /\ Writes(t)
             => LET d == task[t].device_id
                    hits == {i \in 1..Len(device_cache') : device_cache'[i].key = d}
                IN  /\ Cardinality(hits) = 1
                    /\ \A i \in hits :
                         /\ device_cache'[i].value = task'[t].devices[1]
                         /\ device_cache'[i].expires = now + TTL
                    /\ task'[t].apple_tv_device = task'[t].devices[1]
                    /\ lastWrite'[d].value = task'[t].devices[1]]_vars

\* an entry written at time 0 with address 1 expired; a call at TTL scanned,
\* wrote the scan's first device (address 2) and connects to it, while an
\* older call still holds the handle it got from the replaced entry
C4_Witness ==
    \E t \in Tasks, u \in Tasks, d \in DeviceIds :
        /\ now >= TTL
        /\ task[t].pc = "connect"
        /\ task[t].device_id = d
        /\ task[t].trace = <<"scan", "write">>
        /\ task[t].devices = <<RawDevice(d, 2), RawDevice(d, 1)>>
        /\ d \in Keys(device_cache)
        /\ Entry(device_cache, d) =
               [key |-> d, value |-> RawDevice(d, 2), expires |-> now + TTL]
        /\ task[u].device_id = d
        /\ task[u].trace[1] = "hit"
        /\ task[u].apple_tv_device = RawDevice(d, 1)

\* C5: an empty scan result ends the call with DeviceNotFoundException(d);
\* the cache is not written, nothing is connected, no operation is invoked.
C5_EmptyScanIsDeviceNotFound ==
    [][\A t \in Tasks :
        /\ ScanReturn(t, <<>>) => task'[t].result = "DeviceNotFoundException"
        /\ (task[t].pc = "scan" /\ task'[t].result = "DeviceNotFoundException")
             => /\ task'[t].pc = "done"
                /\ task'[t].exc_device_id = task[t].device_id
                /\ task'[t].trace = <<"scan">>
                /\ ~Opened(task'[t])
                /\ device_cache' = device_cache
                /\ lastWrite' = lastWrite]_vars

\* a call ended with DeviceNotFoundException for an id the cache does not hold
C5_Witness ==
    \E t \in Tasks :
        /\ task[t].pc = "done"
        /\ task[t].result = "DeviceNotFoundException"
        /\ task[t].exc_device_id \in DeviceIds
        /\ ~CacheContains(device_cache, task[t].exc_device_id, now)

\* C9: a call that failed ends with CommandExecutionFailed, whatever failed.
C9_FailuresAreWrapped ==
    \A t \in Tasks :
        (task[t].pc = "done" /\ task[t].result \notin {"ok", "CancelledError"})
        => task[t].result = "CommandExecutionFailed"

\* ids of the unexpired entries
LiveKeys(cache, time) == Keys(CacheExpire(cache, time))

\* k was used no later than every other id of `among`
LeastRecentlyUsed(k, among) ==
    \A j \in among \ {k} :
        \E m, n \in 1..Len(recency) : m < n /\ recency[m] = k /\ recency[n] = j

\* C10: the cache never holds more than MaxSize entries; a write of a new id
\* into MaxSize unexpired entries removes exactly the least recently used one;
\* a later resolution of a removed id scans again.
C10_BoundedLRU ==
    /\ Len(device_cache) <= MaxSize
    /\ [][/\ Len(device_cache') <= MaxSize
          /\ \A t \in Tasks :
               LET d == task[t].device_id
                   live == LiveKeys(device_cache, now)
                   gone == live \ Keys(device_cache')
               IN  (Writes(t) /\ Cardinality(live) = MaxSize /\ d \notin live)
                   => /\ Cardinality(gone) = 1
                      /\ \A k \in gone : LeastRecentlyUsed(k, live)
                      /\ Keys(device_cache') = (live \ gone) \cup {d}
          /\ \A t \in Tasks, d \in DeviceIds :
               (Resolves(t, d) /\ d \in evicted) => task'[t].pc = "scan"]_vars

\* the write of id 2 into the full cache removed id 1, the least recently
\* used, within its TTL; a call for id 1 is scanning again
C10_Witness ==
    \E t \in Tasks :
        /\ Len(device_cache) = MaxSize
        /\ evicted = {1}
        /\ 2 \in LiveKeys(device_cache, now)
        /\ now < lastWrite[1].at + TTL
        /\ task[t].pc = "scan"
        /\ task[t].device_id = 1

(***************************************************************************)
(* Claims about the driver (checked under SpecDriver).                     *)
(***************************************************************************)
\* C7: get_command(c) returns the one catalog command with id c for c in
\* TURN_ON..HOME, raises CommandNotFoundException(name, c) for any other c,
\* and leaves the driver's commands as they are.
C7_GetCommandByIdOrNotFound ==
    [][\A d \in DeviceIds, c \in CommandIdInputs :
        GetCommand(d, c) =>
            LET self == drivers[d]
                same == {i \in 1..Len(self.commands) : self.commands[i].id = c}
            IN  /\ drivers' = drivers
                /\ IF c \in TURN_ON..HOME
                   THEN /\ Cardinality(same) = 1
                        /\ call'.exc = ""
                        /\ call'.command.id = c
                        /\ \A i \in same : call'.command = self.commands[i]
                   ELSE /\ same = {}
                        /\ call'.exc = "CommandNotFoundException"
                        /\ call'.exc_name = self.name
                        /\ call'.exc_cmd_id = c
                        /\ call'.command = NoCommand]_vars

\* get_command(13) on the driver of "Bedroom" raised with the name and the id
C7_Witness ==
    /\ call.op = "get_command"
    /\ call.cmd_id = HOME + 1
    /\ call.exc = "CommandNotFoundException"
    /\ call.exc_name = "Bedroom"
    /\ call.exc_cmd_id = HOME + 1
    /\ drivers[call.device_id].name = "Bedroom"
    /\ Len(drivers[call.device_id].commands) = HOME

\* C8: when execute(command) has returned without error, the command's
\* coroutine has run to its end: the device was resolved, a connection was
\* opened, the command's method was invoked and the connection was closed.
C8_ExecuteRunsTheOperation ==
    (call.op = "execute" /\ call.exc = "")
    => /\ call.coroutine = "CORO_CLOSED"
       /\ call.invoked =
              <<"resolve", "connect", Method(call.command.callback), "close">>

(***************************************************************************)
(* Claims about pairing (checked under SpecPairing).                       *)
(***************************************************************************)
\* C2: a finalize_pairing call for a request that an earlier finalize_pairing
\* call found in the cache raises the not-found DeviceDriverException,
\* however the earlier call ended.
C2_FinalizeIsSingleUse ==
    [][\A request \in 1..(MaxRequests + 1), credentials \in Credentials,
          outcome \in FinalizeOutcomes, has_paired \in BOOLEAN :
        (request \in finalized
         /\ FinalizePairing(request, credentials, outcome, has_paired))
        => call'.exc = "DeviceDriverException"]_vars

\* C6: start_pairing for a device the scan does not find returns
\* (None, False) without raising; no handler is created, begin and save are
\* not called, no request id is stored.
C6_NoDeviceNoAttempt ==
    [][\A d \in DeviceIds :
        StartPairing(d, "no_device")
        => /\ call'.op = "start_pairing"
           /\ call'.exc = ""
           /\ call'.request = 0
           /\ call'.provides_pin = FALSE
           /\ call'.steps = <<"scan">>
           /\ pairing_requests_cache' = pairing_requests_cache
           /\ sessions' = sessions
           /\ storage' = storage]_vars

\* start_pairing returned (None, False) while an earlier request is pending
C6_Witness ==
    /\ call.op = "start_pairing"
    /\ call.steps = <<"scan">>
    /\ call.exc = ""
    /\ call.request = 0
    /\ ~call.provides_pin
    /\ Len(sessions) = 1
    /\ CacheContains(pairing_requests_cache, 1, now)

(***************************************************************************)
(* Further claims about command execution (checked under Spec).            *)
(***************************************************************************)
\* the steps the call has taken that are the given one
Count(f, step) == Cardinality({i \in 1..Len(f.trace) : f.trace[i] = step})

\* C11: when pyatv.connect raises, the call ends with the connect failure,
\* the operation was not invoked and no close was called; a call awaits
\* pyatv.connect once: it enters the connect only from its start or its
\* scan and leaves it for the operation or its end.
C11_ConnectFailureEndsTheCall ==
    [][\A t \in Tasks :
        /\ ConnectRaise(t)
             => /\ task'[t].pc = "done"
                /\ task'[t].result = "ConnectError"
                /\ ~Opened(task'[t])
                /\ Count(task'[t], task[t].operation) = 0
                /\ CloseCalls(task'[t]) = 0
        /\ (task[t].pc = "connect" /\ task'[t] # task[t])
             => task'[t].pc \in {"operation", "done"}
        /\ (task'[t].pc = "connect" /\ task'[t] # task[t])
             => task[t].pc \in {"idle", "done", "scan"}
        /\ Count(task'[t], "connect") <= 1]_vars

\* a call whose connect failed right after its scan wrote the cache
C11_Witness ==
    \E t \in Tasks :
        /\ task[t].pc = "done"
        /\ task[t].result = "ConnectError"
        /\ task[t].trace = <<"scan", "write">>

\* C13: an entry's expiry is its write time plus TTL; a cache hit leaves
\* the keys and every expiry as they are; a resolution of d at or after the
\* latest write for d plus TTL scans, whatever hits came in between.
C13_ExpiryIsInsertionBased ==
    [][/\ \A d \in DeviceIds \cap Keys(device_cache) :
             Entry(device_cache, d).expires = lastWrite[d].at + TTL
       /\ \A t \in Tasks, d \in DeviceIds :
             /\ (Resolves(t, d) /\ task'[t].trace = <<"hit">>)
                  => /\ Keys(device_cache') = Keys(device_cache)
                     /\ \A k \in Keys(device_cache) :
                          Entry(device_cache', k).expires =
                              Entry(device_cache, k).expires
             /\ (Resolves(t, d) /\ lastWrite[d].at >= 0
                               /\ now >= lastWrite[d].at + TTL)
                  => task'[t].pc = "scan"]_vars

\* the entry written at time 0 was hit before it expired (that call still
\* awaits its connect); a call TTL after the write scans
C13_Witness ==
    \E t \in Tasks, u \in Tasks, d \in DeviceIds :
        /\ lastWrite[d].at = 0
        /\ now >= TTL
        /\ d \in Keys(device_cache)
        /\ Entry(device_cache, d).expires = TTL
        /\ task[u].pc = "connect"
        /\ task[u].device_id = d
        /\ task[u].trace = <<"hit">>
        /\ task[t].pc = "scan"
        /\ task[t].device_id = d

\* the entries the cache holds for a key
EntriesOf(cache, key) == {i \in 1..Len(cache) : cache[i].key = key}

\* C16: calls for one id that scan at the same time each connect with the
\* first device of their own scan; the cache holds one entry per id, and
\* the entry of an id is the handle of the latest write for it; no call
\* awaits a connect without a handle.
C16_RacingScansLeaveOneEntry ==
    [][/\ \A k \in Keys(device_cache') :
             Cardinality(EntriesOf(device_cache', k)) = 1
       /\ \A d \in DeviceIds \cap Keys(device_cache') :
             Entry(device_cache', d).value = lastWrite'[d].value
       /\ \A t \in Tasks :
             /\ Writes(t)
                  => /\ task'[t].devices # <<>>
                     /\ task'[t].apple_tv_device = task'[t].devices[1]
                     /\ lastWrite'[task[t].device_id].value = task'[t].devices[1]
                     /\ \A u \in Tasks \ {t} : task'[u] = task[u]
             /\ task'[t].pc = "connect"
                  => task'[t].apple_tv_device.identifier = task'[t].device_id]_vars

\* two calls for d both scanned while d had no entry (no time has passed
\* since the first write); the scans returned different devices, each call
\* connects with its own, and the one entry for d is the one written last
C16_Witness ==
    \E t \in Tasks, u \in Tasks, d \in DeviceIds :
        /\ now = 0
        /\ Len(device_cache) = 1
        /\ task[t].pc = "connect" /\ task[u].pc = "connect"
        /\ task[t].device_id = d /\ task[u].device_id = d
        /\ task[t].trace = <<"scan", "write">>
        /\ task[u].trace = <<"scan", "write">>
        /\ task[t].apple_tv_device = RawDevice(d, 1)
        /\ task[u].apple_tv_device = RawDevice(d, 2)
        /\ Entry(device_cache, d).value = RawDevice(d, 2)
        /\ lastWrite[d] = [value |-> RawDevice(d, 2), at |-> 0]

\* C17: a call whose operation returned ends with success even when its
\* close failed; a call whose operation raised ends with the operation's
\* failure, never with a failure of close.
C17_CloseFailureIsAbsorbed ==
    \A t \in Tasks :
        task[t].pc = "done"
        => /\ (CloseCalls(task[t]) > 0 /\ task[t].result # "CancelledError")
                => task[t].result = "ok"
           /\ (Opened(task[t]) /\ CloseCalls(task[t]) = 0
                             /\ task[t].result # "CancelledError")
                => task[t].result = "OperationError"

\* C20: the entries of the cache change only in the step in which a call
\* writes the first device of its non-empty scan under its own id; a connect,
\* operation or close that raises leaves the cache as it is; a resolution of
\* an id whose entry is unexpired is a hit on that entry, whatever became of
\* the calls that used it before.
C20_CacheChangesOnlyByOwnWrite ==
    [][/\ Range(device_cache') # Range(device_cache)
            => \E t \in Tasks :
                 /\ Writes(t)
                 /\ task'[t].devices # <<>>
                 /\ Entry(device_cache', task[t].device_id) =
                        [key |-> task[t].device_id,
                         value |-> task'[t].devices[1],
                         expires |-> now + TTL]
       /\ \A t \in Tasks :
             /\ (ConnectRaise(t) \/ OperationRaise(t) \/ CloseRaise(t))
                  => device_cache' = device_cache
             /\ \A d \in DeviceIds :
                  (Resolves(t, d) /\ d \in LiveKeys(device_cache, now))
                  => /\ task'[t].trace = <<"hit">>
                     /\ task'[t].apple_tv_device = Entry(device_cache, d).value
                     /\ Entry(device_cache', d) = Entry(device_cache, d)]_vars

\* the cache holds one entry, written by a scan; a call that hit it ended
\* with a connect failure, and a call is connecting with the same handle
\* from another hit
C20_Witness ==
    \E t \in Tasks, u \in Tasks :
        /\ Len(device_cache) = 1
        /\ lastWrite[device_cache[1].key].at >= 0
        /\ task[u].pc = "done"
        /\ task[u].result = "ConnectError"
        /\ task[u].trace = <<"hit">>
        /\ task[t].pc = "connect"
        /\ task[t].trace = <<"hit">>
        /\ task[t].device_id = device_cache[1].key
        /\ task[t].apple_tv_device = device_cache[1].value

(***************************************************************************)
(* Further claims about pairing (checked under SpecPairing).               *)
(***************************************************************************)
\* the request ids the pairing cache holds unexpired
LiveRequests == {pairing_requests_cache[i].key :
                    i \in {j \in 1..Len(pairing_requests_cache) :
                              now < pairing_requests_cache[j].expires}}

\* C12: finalize_pairing for a request id that is not live in the pairing
\* cache (never issued, or issued PairingTTL or more ago) raises the
\* not-found DeviceDriverException and does nothing else: no pin, finish or
\* close on any handler, no storage access, the cache as it was.
C12_FinalizeNotLiveHasNoEffect ==
    [][\A request \in 1..(MaxRequests + 1), credentials \in Credentials,
          outcome \in FinalizeOutcomes, has_paired \in BOOLEAN :
        (request \notin LiveRequests
         /\ FinalizePairing(request, credentials, outcome, has_paired))
        => /\ call'.op = "finalize_pairing"
           /\ call'.exc = "DeviceDriverException"
           /\ call'.steps = <<>>
           /\ sessions' = sessions
           /\ storage' = storage
           /\ pairing_requests_cache' = pairing_requests_cache]_vars

\* finalize_pairing raised not-found for a request that was issued and
\* expired PairingTTL after its start, its handler never given a pin
C12_Witness ==
    /\ call.op = "finalize_pairing"
    /\ call.exc = "DeviceDriverException"
    /\ call.request \in Keys(pairing_requests_cache)
    /\ call.request \notin LiveRequests
    /\ now = Entry(pairing_requests_cache, call.request).expires
    /\ sessions[call.request].begun
    /\ sessions[call.request].pin = ""
    /\ sessions[call.request].closes = 0

\* the place of a step among the steps of the last call, 0 if it was not taken
Pos(step) ==
    IF \E i \in 1..Len(call.steps) : call.steps[i] = step
    THEN CHOOSE i \in 1..Len(call.steps) : call.steps[i] = step
    ELSE 0

\* C14: when start_pairing has returned a request id, storage was saved
\* after the handler's begin; when finalize_pairing has returned, storage was
\* saved after the handler's finish, and its steps came in the order pin,
\* finish, save, close.
C14_SavedBeforeClose ==
    /\ (call.op = "start_pairing" /\ call.exc = "" /\ call.request # 0)
         => (0 < Pos("begin") /\ Pos("begin") < Pos("save"))
    /\ (call.op = "finalize_pairing" /\ call.exc = "")
         => /\ 0 < Pos("finish") /\ Pos("finish") < Pos("save")
            /\ 0 < Pos("pin") /\ Pos("pin") < Pos("finish")
            /\ Pos("save") < Pos("close")

\* C15: a start_pairing that returns a request id stores its new handler
\* under an id the cache did not hold and leaves the older handlers as they
\* are; a finalize_pairing(request) that finds its request changes no
\* handler but the one stored under that request, and every other entry of
\* the cache keeps its handler and its expiry.
C15_AttemptsAreIsolated ==
    [][/\ \A d \in DeviceIds :
             StartPairing(d, "ok")
             => /\ call'.request \notin Keys(pairing_requests_cache)
                /\ call'.request \in Keys(pairing_requests_cache')
                /\ Entry(pairing_requests_cache', call'.request).value
                       = Len(sessions')
                /\ Len(sessions') = Len(sessions) + 1
                /\ \A i \in 1..Len(sessions) : sessions'[i] = sessions[i]
       /\ \A request \in LiveRequests, credentials \in Credentials,
             outcome \in FinalizeOutcomes, has_paired \in BOOLEAN :
             FinalizePairing(request, credentials, outcome, has_paired)
             => /\ \A i \in 1..Len(sessions) :
                     i # Entry(pairing_requests_cache, request).value
                     => sessions'[i] = sessions[i]
                /\ Len(sessions') = Len(sessions)
                /\ \A k \in Keys(pairing_requests_cache) \ {request} :
                     /\ k \in Keys(pairing_requests_cache')
                     /\ Entry(pairing_requests_cache', k)
                            = Entry(pairing_requests_cache, k)]_vars

\* two attempts in flight: the second was finalized (pin, finish, close),
\* the first, started earlier, is still as start_pairing left it
C15_Witness ==
    /\ Len(sessions) = 2
    /\ LiveRequests = {1, 2}
    /\ call.op = "finalize_pairing"
    /\ call.request = 2
    /\ call.exc = ""
    /\ sessions[2] = [begun |-> TRUE, pin |-> "1234", finished |-> TRUE, closes |-> 1]
    /\ sessions[1] = [NewSession EXCEPT !.begun = TRUE]
    /\ Entry(pairing_requests_cache, 1).value = 1

\* the last call was handed the storage by PyAtvStorage.get_storage()
GotStorage ==
    \/ call.op \in {"start_pairing", "finalize_pairing"}
          /\ Pos("get_storage") > 0 /\ call.exc # "load_raises"
    \/ call.op = "create_device_instance" /\ call.exc = ""

\* C18: the storage is created and loaded once and stays that handle; a
\* caller that was handed the storage (a driver built on it, a pairing call
\* that went on with it) was handed it loaded.
C18_StorageLoadedOnce ==
    /\ [](storage.loaded => storage.created)
    /\ [](GotStorage => (storage.created /\ storage.loaded))
    /\ [](\A d \in DeviceIds :
             drivers[d] # NoDriver => (storage.created /\ storage.loaded))
    /\ [][storage.created => storage' = storage]_vars

(***************************************************************************)
(* Claim about the end of pairing sessions (checked under SpecPairingFair: *)
(* time goes on, and the hub goes on calling the descriptor as long as it  *)
(* can).                                                                   *)
(***************************************************************************)
SpecPairingFair ==
    SpecPairing /\ WF_vars(PairingTick) /\ WF_vars(NextPairing)

\* C19: every handler pyatv.pair returned is closed in the end, once:
\* from some time on its number of close calls is 1 for good.
C19_EverySessionClosedOnce ==
    \A i \in 1..MaxRequests :
        (i <= Len(sessions))
            ~> [](i <= Len(sessions) /\ sessions[i].closes = 1)

=============================================================================
